---- MODULE Spec2Model ----
(***************************************************************************)
(* Real-time synchronisation layer of the aiCrypto dashboard frontend:     *)
(* WebSocketProvider (connection lifecycle, frame dispatch, send), the     *)
(* SWR caches of useDashboard / useCoins with their push handlers, pulls   *)
(* and toggleBlacklist, and the filter / sort memo of CoinTable.           *)
(***************************************************************************)
EXTENDS Integers, Sequences, FiniteSets, TLC

\* ------------------------------------------------------------------ bounds
MaxSockets == 3      \* WebSocket objects created in one behaviour
TickMs == 1000       \* granularity of the clock
MaxPulls == 2        \* requests for one SWR key in flight at once
MaxToggles == 2      \* blacklist requests of toggleBlacklist in flight at once
MaxRows == 3         \* rows of the coin table
MaxQuery == 2        \* characters of the search text

\* ------------------------------------------------------- program constants
ReconnectDelayMs == 3000

ReadyStates == {"CONNECTING", "OPEN", "CLOSING", "CLOSED"}

VARIABLES
    mounted,              \* the provider's effect is active (between run and cleanup)
    sockets,              \* readyState of every WebSocket created so far, by creation order
    wsRef,                \* wsRef.current: index into sockets, 0 = null
    connected,            \* the `connected` React state
    timers,               \* pending setTimeout(connect, ..) timers: [id, remaining ms]
    timerSeq,             \* number of setTimeout calls made so far (ids are 1..timerSeq)
    reconnectTimeoutRef,  \* reconnectTimeoutRef.current: a timer id, 0 = undefined
    sendCalls,            \* parity of the number of send(type, data) calls made so far
    lastSend,             \* arguments of the latest send call and the readyState it saw
    wire,                 \* frames handed to WebSocket.send: parity of their number, and the latest
    handlersRef,          \* handlersRef.current: event type -> Set of handlers, in insertion order
    issued,               \* <<type, handler>> pairs whose unsubscribe closure has been returned
    dashMounted,          \* a useDashboard consumer is mounted
    coinsMounted,         \* a useCoins consumer is mounted
    dashCache,            \* SWR cache value of /api/dashboard
    coinsCache,           \* SWR cache value of /api/coins
    coinsPulls,           \* GET /api/coins requests in flight, oldest first
    gone,                 \* issued pairs whose closure has been called since the pair was last subscribed
    rx,                   \* the latest run of ws.onmessage: frame, handlers invoked, exceptions
    dashPulls,            \* GET /api/dashboard requests in flight, oldest first
    dashError,            \* SWR error of /api/dashboard is set
    coinsError,           \* SWR error of /api/coins is set
    toggles,              \* blacklist requests of toggleBlacklist in flight, oldest first
    ev,                   \* the latest cache operation, when it is the latest step: its inputs
    coins,                \* CoinTable: the `coins` prop
    search,               \* CoinTable: the `search` prop (CoinsPage state)
    sortKey,              \* CoinTable: sortKey state
    sortDir,              \* CoinTable: sortDir state
    filtered,             \* CoinTable: the memoized `filtered` list of the latest render
    selectedCoin,         \* CoinTable: selectedCoin state
    sortImpl,             \* how this engine's Array.prototype.sort orders a pair its comparator orders both ways
    undo                  \* the latest handleSort call, when it is the latest step: what it saw

connVars == <<mounted, sockets, wsRef, connected, timers, timerSeq,
              reconnectTimeoutRef>>
sendVars == <<sendCalls, lastSend, wire>>
busVars == <<handlersRef, issued, dashMounted, coinsMounted, dashCache,
             coinsCache, coinsPulls, gone, rx>>
swrVars == <<dashPulls, dashError, coinsError, toggles, ev>>
tableVars == <<coins, search, sortKey, sortDir, filtered, selectedCoin, sortImpl, undo>>
swrRest == <<dashPulls, dashError, coinsError, toggles>>

vars == <<mounted, sockets, wsRef, connected, timers, timerSeq,
          reconnectTimeoutRef, sendCalls, lastSend, wire,
          handlersRef, issued, dashMounted, coinsMounted, dashCache,
          coinsCache, coinsPulls, gone, rx,
          dashPulls, dashError, coinsError, toggles, ev,
          coins, search, sortKey, sortDir, filtered, selectedCoin, sortImpl, undo>>

\* ------------------------------------------------------- WebSocketProvider

\* new WebSocket(url); wsRef.current = ws      (connect, lines 32 and 52)
connect ==
    /\ sockets' = Append(sockets, "CONNECTING")
    /\ wsRef' = Len(sockets) + 1

\* WebSocket.close(): starts the closing handshake of a socket that is
\* connecting or open, no effect on one that is closing or closed.
wsClose(rs) == IF rs \in {"CONNECTING", "OPEN"} THEN "CLOSING" ELSE rs

\* a backoff policy: the delay grows with the number of attempts
onCloseDelayBackoff(nScheduled) == ReconnectDelayMs * (nScheduled + 1)

\* delay handed to setTimeout by ws.onclose (line 48)
onCloseDelay(nScheduled) == ReconnectDelayMs

\* an onclose that only records the loss of the connection
oncloseNoReconnect ==
    /\ connected' = FALSE
    /\ UNCHANGED <<timerSeq, timers, reconnectTimeoutRef>>

\* ws.onclose (lines 46-49): setConnected(false); schedule connect
onclose ==
    /\ connected' = FALSE
    /\ timerSeq' = timerSeq + 1
    /\ timers' = timers \cup {[id |-> timerSeq + 1, remaining |-> onCloseDelay(timerSeq)]}
    /\ reconnectTimeoutRef' = timerSeq + 1

\* useEffect body (line 56): connect()
Mount ==
    /\ ~mounted
    /\ Len(sockets) < MaxSockets
    /\ mounted' = TRUE
    /\ connect
    /\ UNCHANGED <<connected, timers, timerSeq, reconnectTimeoutRef, sendVars, busVars, swrVars, tableVars>>

\* useEffect cleanup (lines 57-60): clearTimeout(ref); wsRef.current?.close()
Teardown ==
    /\ mounted
    /\ mounted' = FALSE
    /\ timers' = {t \in timers : t.id # reconnectTimeoutRef}
    /\ sockets' = IF wsRef = 0 THEN sockets
                  ELSE [sockets EXCEPT ![wsRef] = wsClose(@)]
    /\ UNCHANGED <<wsRef, connected, timerSeq, reconnectTimeoutRef, sendVars, busVars, swrVars, tableVars>>

\* open event of socket i, ws.onopen (line 34)
OnOpen(i) ==
    /\ sockets[i] = "CONNECTING"
    /\ sockets' = [sockets EXCEPT ![i] = "OPEN"]
    /\ connected' = TRUE
    /\ UNCHANGED <<mounted, wsRef, timers, timerSeq, reconnectTimeoutRef, sendVars, busVars, swrVars, tableVars>>

\* The connection of socket i fails: the browser marks it CLOSED, fires
\* error (ws.onerror, line 51: ws.close()) and then close (ws.onclose).
OnError(i) ==
    /\ sockets[i] \in {"CONNECTING", "OPEN", "CLOSING"}
    /\ sockets' = [sockets EXCEPT ![i] = wsClose("CLOSED")]
    /\ onclose
    /\ UNCHANGED <<mounted, wsRef, sendVars, busVars, swrVars, tableVars>>

\* Clean close of socket i (remote close, or end of the handshake started
\* by close()): the browser marks it CLOSED and fires close (ws.onclose).
OnClose(i) ==
    /\ sockets[i] \in {"OPEN", "CLOSING"}
    /\ sockets' = [sockets EXCEPT ![i] = "CLOSED"]
    /\ onclose
    /\ UNCHANGED <<mounted, wsRef, sendVars, busVars, swrVars, tableVars>>

\* a pending reconnection timer comes due and runs connect
TimerFire(t) ==
    /\ t \in timers
    /\ t.remaining = 0
    /\ Len(sockets) < MaxSockets
    /\ timers' = timers \ {t}
    /\ connect
    /\ UNCHANGED <<mounted, connected, timerSeq, reconnectTimeoutRef, sendVars, busVars, swrVars, tableVars>>

\* TickMs of time pass: every pending timer gets closer to its due time
Tick ==
    /\ \E t \in timers : t.remaining > 0
    /\ timers' = {[t EXCEPT !.remaining = IF @ > TickMs THEN @ - TickMs ELSE 0] :
                      t \in timers}
    /\ UNCHANGED <<mounted, sockets, wsRef, connected, timerSeq,
                   reconnectTimeoutRef, sendVars, busVars, swrVars, tableVars>>

\* ------------------------------------------------------------------- send

Undefined == "undefined"
SendTypes == {"ping", "sub"}
PayloadFields == {"type", "coin", "data"}
PayloadValues == {"sub", Undefined}

\* the `data` argument of send: absent, or a record over some of the fields
NoPayload == [absent |-> TRUE, rec |-> [f \in {} |-> Undefined]]
Payloads ==
    {NoPayload} \cup
    {[absent |-> FALSE, rec |-> r] :
        r \in UNION {[S -> PayloadValues] : S \in SUBSET PayloadFields}}

\* { ...((data as object) || {}), type }: the type argument wins
spreadTypeLast(type, data) ==
    LET rec == IF data.absent THEN [f \in {} |-> Undefined] ELSE data.rec
    IN  [f \in {"type"} \cup DOMAIN rec |-> IF f = "type" THEN type ELSE rec[f]]

\* { type, ...((data as object) || {}) }      (line 78)
spread(type, data) ==
    LET rec == IF data.absent THEN [f \in {} |-> Undefined] ELSE data.rec
    IN  [f \in {"type"} \cup DOMAIN rec |-> IF f \in DOMAIN rec THEN rec[f] ELSE type]

\* JSON.stringify of an object, as the receiver decodes it: a property
\* whose value is undefined is left out of the text.
stringify(obj) ==
    [f \in {g \in DOMAIN obj : obj[g] # Undefined} |-> obj[f]]

\* a guard that only asks for a socket: wsRef.current != null
canSendAnyState(ref, socks) == ref # 0

\* wsRef.current?.readyState === WebSocket.OPEN      (line 77)
canSend(ref, socks) == ref # 0 /\ socks[ref] = "OPEN"

NoFrame == [f \in {} |-> Undefined]

\* send (lines 76-80)
send(type, data) ==
    /\ sendCalls' = 1 - sendCalls
    /\ lastSend' = [type |-> type, data |-> data,
                    state |-> IF wsRef = 0 THEN "null" ELSE sockets[wsRef]]
    /\ wire' = IF canSend(wsRef, sockets)
               THEN [n |-> 1 - wire.n, ws |-> wsRef,
                     frame |-> stringify(spread(type, data))]
               ELSE wire
    /\ UNCHANGED <<connVars, busVars, swrVars, tableVars>>

\* ------------------------------------------------- subscribe / dispatch

Range(seq) == {seq[i] : i \in 1..Len(seq)}
Remove(seq, i) == [j \in 1..(Len(seq) - 1) |-> IF j < i THEN seq[j] ELSE seq[j + 1]]

EventTypes == {"initial_state", "dashboard_update", "blacklist_updated", "other"}

\* handlers of the cache consumers (useDashboard lines 21 and 28, useCoins 20)
\* and three handlers of other callers of subscribe: one that returns, one
\* that throws, one that calls the unsubscribe closure of ("other", hOk)
CacheHandlers == {"hInit", "hUpd", "hBl"}
OtherHandlers == {"hOk", "hThrow", "hUnsub"}

Snapshots == {"s900", "s1000"}
CoinLists == {"c1", "c2"}

\* msg.data: nothing, a bare dashboard snapshot, or an object with a
\* `dashboard` property
NoData == [nullish |-> TRUE, snap |-> Undefined, dashboard |-> Undefined]
Snap(s) == [nullish |-> FALSE, snap |-> s, dashboard |-> Undefined]
State(s) == [nullish |-> FALSE, snap |-> Undefined, dashboard |-> s]
DataValues == {NoData} \cup {Snap(s) : s \in Snapshots} \cup {State(s) : s \in Snapshots}

\* an HTTP exchange as the caller of fetch sees it: a status class (or a
\* network failure), whether the body is JSON text, and what it decodes to
ErrBody == "errBody"
NoResp == [status |-> "none", json |-> FALSE, body |-> "none"]
Ok(body) == [status |-> "2xx", json |-> TRUE, body |-> body]
Failures ==
    {[status |-> "non2xx", json |-> TRUE, body |-> ErrBody],
     [status |-> "non2xx", json |-> FALSE, body |-> "html"],
     [status |-> "network", json |-> FALSE, body |-> "none"]}

\* nothing recorded
RxNone == [tick |-> FALSE, kind |-> "none", type |-> Undefined, data |-> NoData,
           size |-> 0, invoked |-> <<>>, stale |-> FALSE, caught |-> FALSE,
           escaped |-> FALSE]
EvNone == [op |-> "none", key |-> "none", idx |-> 0, cause |-> "none", resp |-> NoResp]

\* event.data: text that is not JSON, the JSON text `null`, or the JSON
\* text of an object with an optional type and data.  Data is varied for
\* the two types whose handlers read it.
Frames ==
    {[kind |-> k, type |-> Undefined, data |-> NoData] : k \in {"garbage", "null"}} \cup
    {[kind |-> "object", type |-> t, data |-> d] :
        t \in {"initial_state", "dashboard_update"}, d \in DataValues} \cup
    {[kind |-> "object", type |-> t, data |-> NoData] :
        t \in (EventTypes \cup {Undefined}) \ {"initial_state", "dashboard_update"}}

\* an array push instead of Set.add
setAddPush(set, h) == Append(set, h)

\* Set.prototype.add / delete on an insertion-ordered Set
setAdd(set, h) == IF h \in Range(set) THEN set ELSE Append(set, h)
setDelete(set, h) == SelectSeq(set, LAMBDA x : x # h)

\* one handler set shared by every event type
subscribeOneSet(H, eventType, handler) ==
    LET H1 == IF "other" \in DOMAIN H THEN H ELSE H @@ ("other" :> <<>>)
    IN  [H1 EXCEPT !["other"] = IF handler \in Range(@) THEN @ ELSE Append(@, handler)]

\* body of subscribe (lines 65-68)
subscribe(H, eventType, handler) ==
    LET H1 == IF eventType \in DOMAIN H THEN H ELSE H @@ (eventType :> <<>>)
    IN  [H1 EXCEPT ![eventType] = setAdd(@, handler)]

\* a closure that deletes nothing
unsubscribeNothing(H, eventType, handler) == H

\* the closure returned by subscribe (lines 69-71)
unsubscribe(H, eventType, handler) ==
    IF eventType \in DOMAIN H
    THEN [H EXCEPT ![eventType] = setDelete(@, handler)]
    ELSE H

\* --- SWR, as the two hooks use it.  A request in flight is a record:
\* cur = it is the request SWR holds for its key (a later request started
\* without deduplication, or a bare mutate(), takes that place);
\* mut = mutate(data, ..) has run on the key since the request started;
\* pre = a push handler has written the cache since the request started.
NewPull == [cur |-> TRUE, mut |-> FALSE, pre |-> FALSE]

\* a mutate(data, ..) that leaves the requests in flight as they are
mutateDataNoStamp(pulls) == pulls

\* mutate(data, { revalidate: false }) on the requests in flight: SWR stamps
\* the key, and a response whose request started before the stamp is dropped
mutateData(pulls) == [i \in 1..Len(pulls) |-> [pulls[i] EXCEPT !.mut = TRUE]]

\* mutate(): SWR forgets the request it holds for the key and, when a hook
\* for the key is mounted, starts a new one without deduplication
mutateRevalidate(pulls, hookMounted) ==
    LET old == [i \in 1..Len(pulls) |-> [pulls[i] EXCEPT !.cur = FALSE]]
    IN  IF hookMounted THEN Append(old, NewPull) ELSE old

\* revalidation with deduplication (mount, focus, reconnect, polling, error
\* retry): joins the request SWR holds for the key, else starts one
revalidate(pulls) ==
    IF \E i \in 1..Len(pulls) : pulls[i].cur THEN pulls ELSE Append(pulls, NewPull)

\* the cache is written by a push: ghost mark on the requests in flight
pushed(pulls) == [i \in 1..Len(pulls) |-> [pulls[i] EXCEPT !.pre = TRUE]]

\* a handler that stores the whole payload of initial_state
onInitialStateWhole(st) ==
    [st EXCEPT !.dash = st.data, !.dpulls = pushed(mutateData(@)), !.derr = FALSE]

\* handler of initial_state (useDashboard lines 21-26)
onInitialState(st) ==
    IF ~st.data.nullish /\ st.data.dashboard # Undefined
    THEN [st EXCEPT !.dash = Snap(st.data.dashboard),
                    !.dpulls = pushed(mutateData(@)), !.derr = FALSE]
    ELSE st

\* handler of dashboard_update (useDashboard lines 28-30)
onDashboardUpdate(st) ==
    [st EXCEPT !.dash = st.data, !.dpulls = pushed(mutateData(@)), !.derr = FALSE]

\* a handler that does not refresh
onBlacklistUpdatedNoPull(st) == st

\* handler of blacklist_updated (useCoins line 20): mutate()
onBlacklistUpdated(st) ==
    [st EXCEPT !.pulls = mutateRevalidate(@, TRUE)]

\* One handler call h(msg.data) on the dispatch state st.
call(h, st) ==
    CASE h = "hInit" -> onInitialState(st)
      [] h = "hUpd" -> onDashboardUpdate(st)
      [] h = "hBl" -> onBlacklistUpdated(st)
      [] h = "hThrow" ->
           [st EXCEPT !.threw = TRUE]
      [] h = "hUnsub" ->
           IF <<"other", "hOk">> \in issued
           THEN [st EXCEPT !.H = unsubscribe(@, "other", "hOk"),
                           !.gone = @ \cup {<<"other", "hOk">>}]
           ELSE st
      [] OTHER -> st

\* handlers.forEach((h) => h(msg.data))      (line 40)
\* Set.prototype.forEach walks the live Set: an entry deleted before it is
\* reached is not visited, and a throw ends the walk.
RECURSIVE forEach(_)
forEach(st) ==
    LET set == st.H[st.type]
    IN  IF st.threw \/ st.pos >= Len(set) THEN st
        ELSE LET h == set[st.pos + 1]
                 r == call(h, [st EXCEPT !.invoked = Append(@, h),
                                         !.stale = @ \/ <<st.type, h>> \in st.gone])
                 left == r.H[st.type]
                 pos == Cardinality({i \in 1..(st.pos + 1) : set[i] \in Range(left)})
             IN  forEach([r EXCEPT !.pos = pos])

\* JSON.parse(event.data) followed by the read of msg.type (lines 38-39)
parse(frame) ==
    [threw |-> frame.kind \in {"garbage", "null"},
     type |-> frame.type, data |-> frame.data]

\* no try/catch: what is thrown leaves ws.onmessage
tryCatchMissing(threw) == [caught |-> FALSE, escaped |-> threw]

\* try { .. } catch { /* ignore parse errors */ }      (lines 37, 41-43)
\* around the whole body: whatever is thrown inside is caught, nothing escapes
tryCatch(threw) == [caught |-> threw, escaped |-> FALSE]

\* body of ws.onmessage (lines 36-44)
onmessage(frame) ==
    LET msg == parse(frame)
        st0 == [H |-> handlersRef, type |-> msg.type, data |-> msg.data, pos |-> 0,
                invoked |-> <<>>, threw |-> msg.threw, stale |-> FALSE,
                dash |-> dashCache, pulls |-> coinsPulls, gone |-> gone,
                dpulls |-> dashPulls, derr |-> dashError]
    IN  IF ~msg.threw /\ msg.type \in DOMAIN handlersRef THEN forEach(st0) ELSE st0

\* message event of socket i
OnMessage(i, frame) ==
    /\ sockets[i] = "OPEN"
    /\ LET r == onmessage(frame)
       IN  /\ Len(r.pulls) <= MaxPulls
           /\ handlersRef' = r.H
           /\ dashCache' = r.dash
           /\ dashPulls' = r.dpulls
           /\ dashError' = r.derr
           /\ coinsPulls' = r.pulls
           /\ gone' = r.gone
           /\ ev' = EvNone
           /\ rx' = [tick |-> ~rx.tick, kind |-> frame.kind, type |-> r.type,
                     data |-> IF r.invoked = <<>> THEN NoData ELSE frame.data,
                     size |-> IF r.type \in DOMAIN handlersRef /\ frame.kind = "object"
                              THEN Len(handlersRef[r.type]) ELSE 0,
                     invoked |-> r.invoked, stale |-> r.stale,
                     caught |-> tryCatch(r.threw).caught,
                     escaped |-> tryCatch(r.threw).escaped]
    /\ UNCHANGED <<connVars, sendVars, tableVars, issued, dashMounted, coinsMounted,
                   coinsCache, coinsError, toggles>>

\* some component calls subscribe(eventType, handler)
Subscribe(eventType, handler) ==
    /\ handlersRef' = subscribe(handlersRef, eventType, handler)
    /\ issued' = issued \cup {<<eventType, handler>>}
    /\ gone' = gone \ {<<eventType, handler>>}
    /\ UNCHANGED <<connVars, sendVars, swrVars, tableVars, dashMounted, coinsMounted, dashCache,
                   coinsCache, coinsPulls, rx>>

\* some component calls an unsubscribe closure it was given
Unsubscribe(eventType, handler) ==
    /\ <<eventType, handler>> \in issued
    /\ handlersRef' = unsubscribe(handlersRef, eventType, handler)
    /\ gone' = gone \cup {<<eventType, handler>>}
    /\ UNCHANGED <<connVars, sendVars, swrVars, tableVars, issued, dashMounted, coinsMounted, dashCache,
                   coinsCache, coinsPulls, rx>>

\* useDashboard effect (lines 19-30)
MountDashboard ==
    /\ ~dashMounted
    /\ dashMounted' = TRUE
    /\ handlersRef' = subscribe(subscribe(handlersRef, "initial_state", "hInit"),
                                "dashboard_update", "hUpd")
    /\ issued' = issued \cup {<<"initial_state", "hInit">>, <<"dashboard_update", "hUpd">>}
    /\ gone' = gone \ {<<"initial_state", "hInit">>, <<"dashboard_update", "hUpd">>}
    /\ UNCHANGED <<connVars, sendVars, swrVars, tableVars, coinsMounted, dashCache, coinsCache, coinsPulls, rx>>

\* a cleanup that calls unsub1 only
UnmountDashboardFirstOnly ==
    /\ dashMounted
    /\ dashMounted' = FALSE
    /\ handlersRef' = unsubscribe(handlersRef, "initial_state", "hInit")
    /\ gone' = gone \cup {<<"initial_state", "hInit">>}
    /\ UNCHANGED <<connVars, sendVars, swrVars, tableVars, issued, coinsMounted, dashCache, coinsCache,
                   coinsPulls, rx>>

\* useDashboard effect cleanup (lines 31-34)
UnmountDashboard ==
    /\ dashMounted
    /\ dashMounted' = FALSE
    /\ handlersRef' = unsubscribe(unsubscribe(handlersRef, "initial_state", "hInit"),
                                  "dashboard_update", "hUpd")
    /\ gone' = gone \cup {<<"initial_state", "hInit">>, <<"dashboard_update", "hUpd">>}
    /\ UNCHANGED <<connVars, sendVars, swrVars, tableVars, issued, coinsMounted, dashCache, coinsCache,
                   coinsPulls, rx>>

\* useCoins effect (lines 19-20)
MountCoins ==
    /\ ~coinsMounted
    /\ coinsMounted' = TRUE
    /\ handlersRef' = subscribe(handlersRef, "blacklist_updated", "hBl")
    /\ issued' = issued \cup {<<"blacklist_updated", "hBl">>}
    /\ gone' = gone \ {<<"blacklist_updated", "hBl">>}
    /\ UNCHANGED <<connVars, sendVars, swrVars, tableVars, dashMounted, dashCache, coinsCache, coinsPulls, rx>>

\* useCoins effect cleanup (line 21)
UnmountCoins ==
    /\ coinsMounted
    /\ coinsMounted' = FALSE
    /\ handlersRef' = unsubscribe(handlersRef, "blacklist_updated", "hBl")
    /\ gone' = gone \cup {<<"blacklist_updated", "hBl">>}
    /\ UNCHANGED <<connVars, sendVars, swrVars, tableVars, issued, dashMounted, dashCache, coinsCache,
                   coinsPulls, rx>>

\* ------------------------------------------------------------ the caches

DashRefreshMs == 30000
CoinsRefreshMs == 60000

\* a dashboard hook that polls whatever the connection state
dashRefreshIntervalAlways(conn) == DashRefreshMs

\* refreshInterval of useDashboard (line 15) and of useCoins (line 16)
dashRefreshInterval(conn) == IF conn THEN 0 ELSE DashRefreshMs
coinsRefreshInterval(conn) == CoinsRefreshMs

\* fetcher (line 8 of both hooks): fetch(url).then((r) => r.json()).
\* fetch rejects on a network failure only; r.json() rejects when the body
\* is not JSON; the status is not looked at.
fetcher(resp) ==
    [rejected |-> resp.status = "network" \/ ~resp.json, value |-> resp.body]

\* what the cache of /api/dashboard holds for a decoded body
dashValue(body) == Snap(body)

\* an SWR that keeps every response
isLatestAlways(req) == TRUE

\* SWR drops the response of a request it no longer holds for the key
isLatest(req) == req.cur

\* The response of request req arrives (useSWR, lines 13-17 of both hooks):
\* a rejection sets the error and keeps the data; a response of a request
\* SWR no longer holds changes nothing; a response that overlaps a
\* mutate(data) clears the error and keeps the data; else the data is
\* replaced by the decoded body.
settle(req, resp, data, error, value) ==
    IF fetcher(resp).rejected THEN [data |-> data, error |-> TRUE]
    ELSE IF ~isLatest(req) THEN [data |-> data, error |-> error]
    ELSE IF req.mut THEN [data |-> data, error |-> FALSE]
    ELSE [data |-> value, error |-> FALSE]

\* why SWR revalidates a key with deduplication: a mount / focus / reconnect
\* event, the refreshInterval timer, the retry timer after an error
Causes == {"event", "poll", "retry"}

canRevalidate(cause, hookMounted, interval, error) ==
    /\ hookMounted
    /\ cause = "poll" => (interval > 0 /\ ~error)
    /\ cause = "retry" => error

Record(e) ==
    /\ ev' = e
    /\ rx' = [RxNone EXCEPT !.tick = ~rx.tick]

\* SWR revalidates /api/dashboard (useDashboard lines 13-17)
DashRevalidate(cause) ==
    /\ canRevalidate(cause, dashMounted, dashRefreshInterval(connected), dashError)
    /\ Len(revalidate(dashPulls)) <= MaxPulls
    /\ dashPulls' = revalidate(dashPulls)
    /\ Record([EvNone EXCEPT !.op = "pull", !.key = "dash", !.cause = cause])
    /\ UNCHANGED <<connVars, sendVars, tableVars, handlersRef, issued, dashMounted, coinsMounted,
                   dashCache, coinsCache, coinsPulls, gone, dashError, coinsError,
                   toggles>>

\* SWR revalidates /api/coins (useCoins lines 13-17)
CoinsRevalidate(cause) ==
    /\ canRevalidate(cause, coinsMounted, coinsRefreshInterval(connected), coinsError)
    /\ Len(revalidate(coinsPulls)) <= MaxPulls
    /\ coinsPulls' = revalidate(coinsPulls)
    /\ Record([EvNone EXCEPT !.op = "pull", !.key = "coins", !.cause = cause])
    /\ UNCHANGED <<connVars, sendVars, tableVars, handlersRef, issued, dashMounted, coinsMounted,
                   dashCache, coinsCache, dashPulls, gone, dashError, coinsError,
                   toggles>>

\* the i-th GET /api/dashboard in flight ends with resp
DashPullSettles(i, resp) ==
    /\ i \in 1..Len(dashPulls)
    /\ LET r == settle(dashPulls[i], resp, dashCache, dashError, dashValue(resp.body))
       IN  /\ dashCache' = r.data
           /\ dashError' = r.error
    /\ dashPulls' = Remove(dashPulls, i)
    /\ Record([EvNone EXCEPT !.op = "settle", !.key = "dash", !.idx = i, !.resp = resp])
    /\ UNCHANGED <<connVars, sendVars, tableVars, handlersRef, issued, dashMounted, coinsMounted,
                   coinsCache, coinsPulls, gone, coinsError, toggles>>

\* the response of the i-th GET /api/coins in flight reaches SWR
coinsPullSettles(i, resp) ==
    /\ i \in 1..Len(coinsPulls)
    /\ LET r == settle(coinsPulls[i], resp, coinsCache, coinsError, resp.body)
       IN  /\ coinsCache' = r.data
           /\ coinsError' = r.error
    /\ coinsPulls' = Remove(coinsPulls, i)
    /\ Record([EvNone EXCEPT !.op = "settle", !.key = "coins", !.idx = i, !.resp = resp])
    /\ UNCHANGED <<connVars, sendVars, handlersRef, issued, dashMounted, coinsMounted,
                   dashCache, dashPulls, gone, dashError, toggles>>

\* the i-th GET /api/coins in flight ends with resp, no CoinTable rendered
CoinsPullSettles(i, resp) ==
    /\ coinsPullSettles(i, resp)
    /\ UNCHANGED tableVars

\* a toggleBlacklist that writes the flipped flag into the cache at once
toggleBlacklistOptimistic(resp, st) ==
    LET flipped == [st EXCEPT !.cache = IF @ = "c1" THEN "c2" ELSE "c1"]
    IN  IF resp.status = "network" THEN flipped
        ELSE [flipped EXCEPT !.pulls = mutateRevalidate(@, st.hook)]

\* toggleBlacklist after its request was sent (useCoins lines 25-35): the
\* await throws when fetch rejects, which skips mutate(); a response of any
\* status resumes the function, which calls mutate()
toggleBlacklist(resp, st) ==
    IF resp.status = "network" THEN st
    ELSE [st EXCEPT !.pulls = mutateRevalidate(@, st.hook)]

\* a toggleBlacklist that always adds
toggleRequestAdd(blacklisted) == "POST"

\* the request toggleBlacklist sends (useCoins lines 26-33)
toggleRequest(blacklisted) == IF blacklisted THEN "DELETE" ELSE "POST"

\* toggleBlacklist(coin, blacklisted) up to its await (useCoins lines 25-33)
toggleBlacklistCall(coin, blacklisted) ==
    /\ coinsMounted
    /\ Len(toggles) < MaxToggles
    /\ toggles' = Append(toggles, [method |-> toggleRequest(blacklisted), coin |-> coin])
    /\ UNCHANGED <<connVars, sendVars, handlersRef, issued, dashMounted, coinsMounted,
                   dashCache, coinsCache, coinsPulls, dashPulls, gone, dashError,
                   coinsError>>

\* a caller of the hook calls toggleBlacklist(coin, blacklisted)
ToggleBlacklist(coin, blacklisted) ==
    /\ toggleBlacklistCall(coin, blacklisted)
    /\ Record([EvNone EXCEPT !.op = "toggle", !.key = "coins",
                             !.cause = toggleRequest(blacklisted)])
    /\ UNCHANGED tableVars

\* the i-th blacklist request in flight ends with resp
ToggleSettles(i, resp) ==
    /\ i \in 1..Len(toggles)
    /\ LET r == toggleBlacklist(resp, [cache |-> coinsCache, pulls |-> coinsPulls,
                                       hook |-> coinsMounted])
       IN  /\ Len(r.pulls) <= MaxPulls
           /\ coinsCache' = r.cache
           /\ coinsPulls' = r.pulls
    /\ toggles' = Remove(toggles, i)
    /\ Record([EvNone EXCEPT !.op = "toggleSettle", !.key = "coins", !.idx = i,
                             !.cause = toggles[i].method, !.resp = resp])
    /\ UNCHANGED <<connVars, sendVars, tableVars, handlersRef, issued, dashMounted, coinsMounted,
                   dashCache, dashPulls, gone, dashError, coinsError>>

\* isLoading of useDashboard, were it to look at the data only
isLoadingDataOnly(data, error) == data.nullish

\* isLoading of useDashboard (line 37): !data && !error
isLoading(data, error) == data.nullish /\ ~error

\* -------------------------------------------------------------- CoinTable

\* strings are sequences of characters
Upper == <<"B", "C", "E", "H", "L", "O", "S", "T">>
Lower == <<"b", "c", "e", "h", "l", "o", "s", "t">>
IndexOf(seq, x) == CHOOSE k \in 1..Len(seq) : seq[k] = x

\* win_rate: number | null
Null == [null |-> TRUE, n |-> 0]
Num(n) == [null |-> FALSE, n |-> n]

\* selectedCoin: string | null
NoCoin == [null |-> TRUE, coin |-> <<>>]
Coin(name) == [null |-> FALSE, coin |-> name]

\* CoinData, with one column of each type (types.ts lines 59-69)
Row(name, rate, bl) == [coin |-> name, win_rate |-> rate, blacklisted |-> bl]
Rows ==
    {Row(<<"B", "T", "C">>, Num(2), FALSE), Row(<<"E", "T", "H">>, Null, TRUE),
     Row(<<"S", "O", "L">>, Num(1), FALSE), Row(<<"s", "t", "E", "T", "H">>, Null, FALSE)}

\* coin is the key of a row (key={c.coin}, line 243): a list holds a coin once
Keyed(list) == \A i, j \in 1..Len(list) : list[i].coin = list[j].coin => i = j
RowLists == {list \in UNION {[1..n -> Rows] : n \in 0..MaxRows} : Keyed(list)}
QueryChars == {"e", "T"}
Searches == UNION {[1..n -> QueryChars] : n \in 0..MaxQuery}
SortKeys == {"coin", "win_rate", "blacklisted"}

\* the two orders engines give a pair that the comparator orders both ways:
\* as in the input (binary insertion), reversed (linear insertion)
SortImpls == {"keep", "reverse"}

\* String.prototype.toLowerCase
toLowerCase(str) ==
    [i \in 1..Len(str) |->
        IF str[i] \in Range(Upper) THEN Lower[IndexOf(Upper, str[i])] ELSE str[i]]

\* String.prototype.includes
includes(str, q) ==
    \E i \in 0..(Len(str) - Len(q)) : SubSeq(str, i + 1, i + Len(q)) = q

\* a predicate that compares the texts as they are
matchesExact(c, q) == includes(c.coin, q)

\* the filter predicate (lines 178-179)
matches(c, q) == includes(toLowerCase(c.coin), toLowerCase(q))

\* order of two sequences of ranks: -1, 0 or 1
seqCompare(x, y) ==
    LET n == IF Len(x) < Len(y) THEN Len(x) ELSE Len(y)
        diff == {i \in 1..n : x[i] # y[i]}
    IN  IF diff = {}
        THEN (IF Len(x) < Len(y) THEN -1 ELSE IF Len(x) > Len(y) THEN 1 ELSE 0)
        ELSE LET i == CHOOSE d \in diff : \A e \in diff : d <= e
             IN  IF x[i] < y[i] THEN -1 ELSE 1

\* String.prototype.localeCompare on these characters: by letter first,
\* then lower case before upper case
localeCompare(x, y) ==
    LET letters(str) == [i \in 1..Len(str) |-> IndexOf(Lower, toLowerCase(str)[i])]
        cases(str) == [i \in 1..Len(str) |-> IF str[i] \in Range(Upper) THEN 1 ELSE 0]
        primary == seqCompare(letters(x), letters(y))
    IN  IF primary # 0 THEN primary ELSE seqCompare(cases(x), cases(y))

\* Number(b) of a boolean
Number(b) == IF b THEN 1 ELSE 0

\* a[key] === null || a[key] === undefined: win_rate is the nullable column
isNullish(a, key) == key = "win_rate" /\ a.win_rate.null

\* a comparator without the two null tests: null - 1 is -1, null counts as 0
compareNullAsZero(a, b, key, dir) ==
    CASE key = "coin" ->
           (IF dir = "asc" THEN localeCompare(a.coin, b.coin)
                           ELSE localeCompare(b.coin, a.coin))
      [] key = "blacklisted" ->
           (IF dir = "asc" THEN Number(a.blacklisted) - Number(b.blacklisted)
                           ELSE Number(b.blacklisted) - Number(a.blacklisted))
      [] OTHER ->
           (IF dir = "asc" THEN a.win_rate.n - b.win_rate.n
                           ELSE b.win_rate.n - a.win_rate.n)

\* the sort comparator (lines 181-195)
compare(a, b, key, dir) ==
    IF isNullish(a, key) THEN 1
    ELSE IF isNullish(b, key) THEN -1
    ELSE CASE key = "coin" ->
                (IF dir = "asc" THEN localeCompare(a.coin, b.coin)
                                ELSE localeCompare(b.coin, a.coin))
           [] key = "blacklisted" ->
                (IF dir = "asc" THEN Number(a.blacklisted) - Number(b.blacklisted)
                                ELSE Number(b.blacklisted) - Number(a.blacklisted))
           [] OTHER ->
                (IF dir = "asc" THEN a.win_rate.n - b.win_rate.n
                                ELSE b.win_rate.n - a.win_rate.n)

\* Array.prototype.sort with that comparator (line 181): the sort is stable,
\* a pair the comparator orders is in that order, and a pair it orders both
\* ways (two nulls, each "after" the other) is in the order of the engine,
\* the same at every call
sort(impl, list, key, dir) ==
    LET n == Len(list)
        ok(p) == \A i, j \in 1..n : i < j =>
                    LET ab == compare(list[p[i]], list[p[j]], key, dir)
                        ba == compare(list[p[j]], list[p[i]], key, dir)
                    IN  /\ ~(ab > 0 /\ ba < 0)
                        /\ (ab = 0 /\ ba = 0) => p[i] < p[j]
                        /\ (ab > 0 /\ ba > 0) =>
                             IF impl = "keep" THEN p[i] < p[j] ELSE p[i] > p[j]
        p == CHOOSE q \in Permutations(1..n) : ok(q)
    IN  [i \in 1..n |-> list[p[i]]]

\* the useMemo body (lines 177-198): the filter makes a new array, which
\* the sort orders in place
memo(impl, cs, q, key, dir) ==
    sort(impl, SelectSeq(cs, LAMBDA c : matches(c, q)), key, dir)

NoUndo == [set |-> FALSE, key |-> "coin", dir |-> "asc", rows |-> <<>>]

\* CoinsPage onChange (TradesTable.tsx line 105): setSearch, then a render
SetSearch(q) ==
    /\ search' = q
    /\ filtered' = memo(sortImpl, coins, q, sortKey, sortDir)
    /\ undo' = NoUndo
    /\ ev' = EvNone
    /\ UNCHANGED <<connVars, sendVars, busVars, swrRest, coins, sortKey, sortDir,
                   selectedCoin, sortImpl>>

\* a direction that is set to descending, not flipped
flipStuck(d) == "desc"

\* (d) => (d === "asc" ? "desc" : "asc")      (line 168)
flip(d) == IF d = "asc" THEN "desc" ELSE "asc"

\* handleSort (lines 165-175), then a render
handleSort(key) ==
    /\ IF sortKey = key
       THEN /\ sortDir' = flip(sortDir)
            /\ sortKey' = sortKey
       ELSE /\ sortKey' = key
            /\ sortDir' = "asc"
    /\ filtered' = memo(sortImpl, coins, search, sortKey', sortDir')
    /\ undo' = [set |-> sortKey = key, key |-> sortKey, dir |-> sortDir,
                rows |-> IF sortKey = key THEN filtered ELSE <<>>]
    /\ ev' = [EvNone EXCEPT !.op = "sort", !.cause = key]
    /\ UNCHANGED <<connVars, sendVars, busVars, swrRest, coins, search,
                   selectedCoin, sortImpl>>

\* what GET /api/coins returns, decoded
Listing(body) ==
    CASE body = "c1" -> <<Row(<<"B", "T", "C">>, Num(2), FALSE), Row(<<"E", "T", "H">>, Null, TRUE)>>
      [] body = "c2" -> <<Row(<<"B", "T", "C">>, Num(2), TRUE)>>
      [] OTHER -> <<>>

\* coins: data?.coins ?? []      (useCoins line 41)
coinsProp(data) == Listing(data)

\* the i-th GET /api/coins in flight ends with resp while CoinsPage is
\* rendered: the page renders CoinTable with the new coins
PagePullSettles(i, resp) ==
    /\ coinsPullSettles(i, resp)
    /\ coins' = coinsProp(coinsCache')
    /\ filtered' = memo(sortImpl, coins', search, sortKey, sortDir)
    /\ undo' = NoUndo
    /\ UNCHANGED <<search, sortKey, sortDir, selectedCoin, sortImpl>>

\* a row handler that selects the row whatever the selection was
onRowClickSelect(sel, c) == Coin(c.coin)

\* selectedCoin === c.coin ? null : c.coin      (line 245)
onRowClick(sel, c) == IF ~sel.null /\ sel.coin = c.coin THEN NoCoin ELSE Coin(c.coin)

\* the rows of the projection under which CoinDetail is rendered (line 281)
detailRows(list, sel) == {i \in 1..Len(list) : ~sel.null /\ sel.coin = list[i].coin}

\* click on the i-th row of the table (lines 242-247)
RowClick(i) ==
    /\ i \in 1..Len(filtered)
    /\ selectedCoin' = onRowClick(selectedCoin, filtered[i])
    /\ Record([EvNone EXCEPT !.op = "rowClick", !.idx = i])
    /\ UNCHANGED <<connVars, sendVars, handlersRef, issued, dashMounted, coinsMounted,
                   dashCache, coinsCache, coinsPulls, gone, swrRest,
                   coins, search, sortKey, sortDir, filtered, sortImpl, undo>>

\* onClose of the rendered CoinDetail (line 286)
CloseDetail ==
    /\ detailRows(filtered, selectedCoin) # {}
    /\ selectedCoin' = NoCoin
    /\ Record([EvNone EXCEPT !.op = "close"])
    /\ UNCHANGED <<connVars, sendVars, handlersRef, issued, dashMounted, coinsMounted,
                   dashCache, coinsCache, coinsPulls, gone, swrRest,
                   coins, search, sortKey, sortDir, filtered, sortImpl, undo>>

\* a Toggle whose click also reaches the row it is in
onClickToggleBubbling(sel, c) == onRowClick(sel, c)

\* Toggle onClick (Toggle.tsx lines 12-15): e.stopPropagation() keeps the
\* click from the row's onClick, so the selection is what it was
onClickToggle(sel, c) == sel

\* click on the Toggle of the i-th row: onToggle is
\* onToggleBlacklist(c.coin, c.blacklisted)      (line 277, TradesTable.tsx 119)
ToggleClick(i) ==
    /\ i \in 1..Len(filtered)
    /\ toggleBlacklistCall(filtered[i].coin, filtered[i].blacklisted)
    /\ selectedCoin' = onClickToggle(selectedCoin, filtered[i])
    /\ Record([EvNone EXCEPT !.op = "toggle", !.key = "coins", !.idx = i,
                             !.cause = toggleRequest(filtered[i].blacklisted)])
    /\ UNCHANGED <<coins, search, sortKey, sortDir, filtered, sortImpl, undo>>

InitSync ==
    /\ mounted = FALSE
    /\ sockets = <<>>
    /\ wsRef = 0
    /\ connected = FALSE
    /\ timers = {}
    /\ timerSeq = 0
    /\ reconnectTimeoutRef = 0
    /\ sendCalls = 0
    /\ lastSend = [type |-> "ping", data |-> NoPayload, state |-> "null"]
    /\ wire = [n |-> 0, ws |-> 0, frame |-> NoFrame]
    /\ handlersRef = [t \in {} |-> <<>>]
    /\ issued = {}
    /\ dashMounted = FALSE
    /\ coinsMounted = FALSE
    /\ dashCache = NoData
    /\ coinsCache = Undefined
    /\ coinsPulls = <<>>
    /\ gone = {}
    /\ rx = RxNone
    /\ dashPulls = <<>>
    /\ dashError = FALSE
    /\ coinsError = FALSE
    /\ toggles = <<>>
    /\ ev = EvNone

\* nothing fetched yet (coins = data?.coins ?? []), CoinTable state as
\* constructed (lines 161-162), search as constructed by CoinsPage
Init ==
    /\ InitSync
    /\ coins = <<>>
    /\ search = <<>>
    /\ sortKey = "coin"
    /\ sortDir = "asc"
    /\ filtered = <<>>
    /\ selectedCoin = NoCoin
    /\ sortImpl = "keep"
    /\ undo = NoUndo

Next ==
    \/ Mount
    \/ Teardown
    \/ \E i \in 1..Len(sockets) : OnOpen(i)
    \/ \E i \in 1..Len(sockets) : OnError(i)
    \/ \E i \in 1..Len(sockets) : OnClose(i)
    \/ \E t \in timers : TimerFire(t)
    \/ Tick
    \/ \E type \in SendTypes : send(type, NoPayload)

Spec == Init /\ [][Next]_vars

\* the same provider in a browser whose clock advances and whose event
\* loop runs a timer that is due
SpecLive ==
    /\ Init /\ [][Next]_vars
    /\ WF_vars(Tick)
    /\ WF_vars(\E t \in timers : TimerFire(t))

\* the provider with callers of send that pass payloads
NextSend ==
    \/ Mount
    \/ \E i \in 1..Len(sockets) : OnOpen(i)
    \/ \E i \in 1..Len(sockets) : OnError(i)
    \/ \E type \in SendTypes, data \in Payloads : send(type, data)

SpecSend == Init /\ [][NextSend]_vars

\* the provider with the consumers of its event bus
NextBus ==
    \/ Mount
    \/ \E i \in 1..Len(sockets) : OnOpen(i)
    \/ \E i \in 1..Len(sockets) : OnError(i)
    \/ \E i \in 1..Len(sockets) : OnClose(i)
    \/ \E i \in 1..Len(sockets), frame \in Frames : OnMessage(i, frame)
    \/ \E h \in OtherHandlers : Subscribe("other", h)
    \/ \E h \in OtherHandlers : Unsubscribe("other", h)
    \/ MountDashboard
    \/ UnmountDashboard
    \/ MountCoins
    \/ UnmountCoins

SpecBus == Init /\ [][NextBus]_vars

\* what the backend may answer
DashResponses == {Ok(s) : s \in Snapshots} \cup Failures
CoinsResponses == {Ok(list) : list \in CoinLists} \cup Failures
ToggleResponses == {Ok("done")} \cup Failures

\* the provider with a dashboard consumer and the backend
NextDash ==
    \/ Mount
    \/ \E i \in 1..Len(sockets) : OnOpen(i)
    \/ \E i \in 1..Len(sockets) : OnError(i)
    \/ \E i \in 1..Len(sockets) : OnClose(i)
    \/ \E i \in 1..Len(sockets), frame \in Frames : OnMessage(i, frame)
    \/ MountDashboard
    \/ UnmountDashboard
    \/ \E cause \in Causes : DashRevalidate(cause)
    \/ \E i \in 1..Len(dashPulls), resp \in DashResponses : DashPullSettles(i, resp)

SpecDash == Init /\ [][NextDash]_vars

\* the provider with a coin-list consumer and the backend
NextCoins ==
    \/ Mount
    \/ \E i \in 1..Len(sockets) : OnOpen(i)
    \/ \E i \in 1..Len(sockets) : OnError(i)
    \/ \E i \in 1..Len(sockets), frame \in Frames : OnMessage(i, frame)
    \/ MountCoins
    \/ UnmountCoins
    \/ \E cause \in Causes : CoinsRevalidate(cause)
    \/ \E i \in 1..Len(coinsPulls), resp \in CoinsResponses : CoinsPullSettles(i, resp)
    \/ \E blacklisted \in BOOLEAN : ToggleBlacklist(<<"B", "T", "C">>, blacklisted)
    \/ \E i \in 1..Len(toggles), resp \in ToggleResponses : ToggleSettles(i, resp)

SpecCoins == Init /\ [][NextCoins]_vars

\* the frames the two caches act on
CacheFrames ==
    {[kind |-> "object", type |-> "dashboard_update", data |-> Snap("s900")],
     [kind |-> "object", type |-> "blacklist_updated", data |-> NoData]}

\* the provider with both consumers and the backend
NextCache ==
    \/ Mount
    \/ \E i \in 1..Len(sockets) : OnOpen(i)
    \/ \E i \in 1..Len(sockets) : OnError(i)
    \/ \E i \in 1..Len(sockets) : OnClose(i)
    \/ \E i \in 1..Len(sockets), frame \in CacheFrames : OnMessage(i, frame)
    \/ MountDashboard
    \/ UnmountDashboard
    \/ MountCoins
    \/ UnmountCoins
    \/ \E cause \in Causes : DashRevalidate(cause)
    \/ \E cause \in Causes : CoinsRevalidate(cause)
    \/ \E i \in 1..Len(dashPulls), resp \in DashResponses : DashPullSettles(i, resp)
    \/ \E i \in 1..Len(coinsPulls), resp \in CoinsResponses : CoinsPullSettles(i, resp)

SpecCache == Init /\ [][NextCache]_vars

\* CoinTable rendered with some rows
InitTable ==
    /\ InitSync
    /\ coins \in RowLists
    /\ search = <<>>
    /\ sortKey = "coin"
    /\ sortDir = "asc"
    /\ sortImpl \in SortImpls
    /\ filtered = memo(sortImpl, coins, search, sortKey, sortDir)
    /\ selectedCoin = NoCoin
    /\ undo = NoUndo

NextTable ==
    \/ \E q \in Searches : SetSearch(q)
    \/ \E key \in SortKeys : handleSort(key)

SpecTable == InitTable /\ [][NextTable]_vars

\* CoinsPage as constructed, on some engine
InitPage ==
    /\ InitSync
    /\ coins = <<>>
    /\ search = <<>>
    /\ sortKey = "coin"
    /\ sortDir = "asc"
    /\ sortImpl \in SortImpls
    /\ filtered = <<>>
    /\ selectedCoin = NoCoin
    /\ undo = NoUndo

\* what the user of the page types
PageSearches == {<<>>, <<"e">>}

\* CoinsPage: useCoins, CoinTable and the backend
NextPage ==
    \/ MountCoins
    \/ CoinsRevalidate("event")
    \/ \E i \in 1..Len(coinsPulls), list \in CoinLists : PagePullSettles(i, Ok(list))
    \/ \E i \in 1..Len(filtered) : RowClick(i)
    \/ CloseDetail
    \/ \E i \in 1..Len(filtered) : ToggleClick(i)
    \/ \E i \in 1..Len(toggles) : ToggleSettles(i, Ok("done"))
    \/ \E q \in PageSearches : SetSearch(q)

SpecPage == InitPage /\ [][NextPage]_vars

TypeOK ==
    /\ mounted \in BOOLEAN
    /\ \A i \in 1..Len(sockets) : sockets[i] \in ReadyStates
    /\ wsRef \in 0..Len(sockets)
    /\ connected \in BOOLEAN
    /\ reconnectTimeoutRef \in 0..timerSeq

\* ---------------------------------------------------------------- claims

LiveSockets == {i \in 1..Len(sockets) : sockets[i] \in {"CONNECTING", "OPEN"}}
ClosedSockets == {i \in 1..Len(sockets) : sockets[i] = "CLOSED"}
RecognizedTypes == {"initial_state", "dashboard_update", "blacklist_updated"}
IsOnMessageStep == rx'.tick # rx.tick
\* this step is the cache operation op, described by ev'
IsCacheStep(op) == rx'.tick # rx.tick /\ ev'.op = op
\* this step is the arrival of the response of the ev'.idx-th request in
\* flight for key
IsSettleStep(key) == IsCacheStep("settle") /\ ev'.key = key
NoDuplicates(seq) == \A i, j \in 1..Len(seq) : seq[i] = seq[j] => i = j
\* reading property f of a decoded frame: a missing property reads as undefined
Get(obj, f) == IF f \in DOMAIN obj THEN obj[f] ELSE Undefined

\* C1: after teardown no connect call occurs: a WebSocket is only ever
\* created while the provider's effect is active.
NoConnectAfterTeardown ==
    [][Len(sockets') > Len(sockets) => mounted']_vars

\* C2: at every instant at most one transport that is connecting or open
\* exists.
AtMostOneTransport == Cardinality(LiveSockets) <= 1

\* C3: every close event schedules exactly one reconnection timer, with the
\* fixed delay of 3000 ms whatever the number of earlier attempts, so the
\* number of timers scheduled equals the number of close events.
FlatReconnect ==
    [][(ClosedSockets' # ClosedSockets) =>
         /\ Cardinality(ClosedSockets') = Cardinality(ClosedSockets) + 1
         /\ timerSeq' = timerSeq + 1
         /\ timerSeq' = Cardinality(ClosedSockets')
         /\ \E t \in timers' :
              /\ t \notin timers
              /\ timers' = timers \cup {t}
              /\ t.id = reconnectTimeoutRef'
              /\ t.remaining = 3000]_vars

\* N = 3 closes in a row on a mounted provider, the third timer pending
WitnessFlatReconnect ==
    /\ mounted
    /\ Len(sockets) >= 3
    /\ Cardinality(ClosedSockets) = Len(sockets)
    /\ timerSeq = Len(sockets)
    /\ \E t \in timers : t.id = timerSeq /\ t.remaining = 3000

\* C4: when a handler registered for the frame's type throws, every other
\* handler registered for that type is still invoked for that frame.
ThrowIsolated ==
    [][(IsOnMessageStep /\ rx'.kind = "object" /\ rx'.caught
          /\ rx'.type \in DOMAIN handlersRef') =>
         Range(handlersRef'[rx'.type]) \subseteq Range(rx'.invoked)]_vars

\* C5: a handler whose unsubscribe closure has been called (and that has not
\* been subscribed again) is not invoked, also when the closure is called by
\* another handler during the dispatch that would have reached it.
NoDispatchAfterUnsubscribe == ~rx.stale

\* hUnsub ran first of two handlers of "other" and removed hOk, which the
\* same dispatch then did not reach
WitnessUnsubscribeDuringDispatch ==
    /\ rx.kind = "object" /\ rx.type = "other"
    /\ rx.size = 2
    /\ rx.invoked = <<"hUnsub">>
    /\ ~rx.caught
    /\ <<"other", "hOk">> \in gone

UnknownTypeIgnored ==
    [][(IsOnMessageStep /\ rx'.kind = "object" /\ rx'.type \notin RecognizedTypes) =>
         /\ ~rx'.escaped
         /\ Range(rx'.invoked) \cap CacheHandlers = {}
         /\ dashCache' = dashCache
         /\ coinsCache' = coinsCache
         /\ coinsPulls' = coinsPulls]_vars

\* a frame of type "other" reached a handler while both consumers are mounted
WitnessUnknownType ==
    /\ rx.kind = "object" /\ rx.type = "other"
    /\ rx.invoked # <<>>
    /\ dashMounted /\ coinsMounted
    /\ dashCache # NoData

\* C8: a frame that does not parse as an envelope is dropped: no handler
\* runs, no cache, registry or connection state changes, no timer is set,
\* nothing escapes, and the next well-formed frame is dispatched as usual.
MalformedDropped ==
    [][/\ (IsOnMessageStep /\ rx'.kind \in {"garbage", "null"}) =>
            /\ rx'.invoked = <<>>
            /\ ~rx'.escaped
            /\ UNCHANGED <<sockets, wsRef, connected, timers, timerSeq,
                           reconnectTimeoutRef, mounted>>
            /\ UNCHANGED <<handlersRef, dashCache, coinsCache, coinsPulls>>
       /\ (/\ IsOnMessageStep /\ rx.kind \in {"garbage", "null"}
           /\ rx'.kind = "object" /\ rx'.type \in DOMAIN handlersRef
           /\ handlersRef[rx'.type] # <<>>) =>
            /\ rx'.invoked # <<>>
            /\ Head(rx'.invoked) = Head(handlersRef[rx'.type])]_vars

\* a malformed frame has just been processed on an open, connected socket
\* with handlers registered
WitnessMalformedDropped ==
    /\ rx.kind = "garbage"
    /\ connected
    /\ wsRef # 0 /\ sockets[wsRef] = "OPEN"
    /\ dashMounted /\ dashCache # NoData
    /\ timers = {}

\* C9: a send call transmits exactly when wsRef.current is OPEN; the wire
\* changes in no other step (no open, reconnection or timer step flushes
\* anything), so what a call made in another state dropped is never
\* transmitted later.
SendOnlyWhenOpen ==
    [][/\ (sendCalls' # sendCalls) =>
            IF wsRef # 0 /\ sockets[wsRef] = "OPEN"
            THEN wire'.n # wire.n /\ wire'.ws = wsRef
            ELSE wire' = wire
       /\ (wire' # wire) =>
            /\ sendCalls' # sendCalls
            /\ wsRef # 0 /\ sockets[wsRef] = "OPEN"
            /\ lastSend'.state = "OPEN"]_vars

\* a send was dropped while the socket was not open, the provider has
\* reconnected since and nothing has been transmitted
WitnessSendDropped ==
    /\ sendCalls = 1
    /\ lastSend.state \in {"CONNECTING", "CLOSING", "CLOSED"}
    /\ wire.ws = 0
    /\ Len(sockets) >= 2
    /\ wsRef # 0 /\ sockets[wsRef] = "OPEN"

\* C10, as claimed: the envelope's type is the type argument and every
\* payload field is at top level with its value, for every payload.
EnvelopeTypeIsArgument ==
    (wire.ws # 0 /\ lastSend.state = "OPEN") =>
        /\ Get(wire.frame, "type") = lastSend.type
        /\ lastSend.data.absent => DOMAIN wire.frame = {"type"}
        /\ ~lastSend.data.absent =>
             /\ \A f \in DOMAIN lastSend.data.rec :
                  Get(wire.frame, f) = lastSend.data.rec[f]
             /\ DOMAIN wire.frame \subseteq {"type"} \cup DOMAIN lastSend.data.rec

\* C10, amended: every payload field is at top level with its value and
\* nothing else is added but `type`, which is the type argument only when
\* the payload has no `type` field of its own.
EnvelopeFlattened ==
    (wire.ws # 0 /\ lastSend.state = "OPEN") =>
        /\ lastSend.data.absent => wire.frame = [f \in {"type"} |-> lastSend.type]
        /\ ~lastSend.data.absent =>
             /\ \A f \in DOMAIN lastSend.data.rec :
                  Get(wire.frame, f) = lastSend.data.rec[f]
             /\ "type" \notin DOMAIN lastSend.data.rec =>
                  Get(wire.frame, "type") = lastSend.type
             /\ DOMAIN wire.frame \subseteq {"type"} \cup DOMAIN lastSend.data.rec

\* a payload with a `type` field other than the type argument was sent
WitnessEnvelopeFlattened ==
    /\ wire.ws # 0 /\ lastSend.state = "OPEN"
    /\ ~lastSend.data.absent
    /\ DOMAIN lastSend.data.rec = {"type", "coin"}
    /\ lastSend.data.rec["type"] = "sub"
    /\ lastSend.type = "ping"
    /\ wire.frame["type"] = "sub"

\* this step is a firing of the refreshInterval timer of key that started a
\* request
IsPollStep(key) ==
    /\ IsCacheStep("pull") /\ ev'.cause = "poll" /\ ev'.key = key
    /\ Len(dashPulls') + Len(coinsPulls') > Len(dashPulls) + Len(coinsPulls)

\* C11, as claimed: no timer-driven pull of either resource is issued while
\* `connected` is true.
NoPollWhileConnected ==
    [][(IsPollStep("dash") \/ IsPollStep("coins")) => ~connected]_vars

\* C11, amended: the dashboard cache issues timer-driven pulls only while
\* `connected` is false, and does so again once the connection is lost; the
\* timer of the coin-list cache is not tied to the connection state.
DashboardPollsOnlyWhileDisconnected ==
    /\ [][IsPollStep("dash") => ~connected]_vars
    /\ []((dashMounted /\ ~dashError /\ dashPulls = <<>>) =>
            (ENABLED DashRevalidate("poll") <=> ~connected))

\* the connection was open (a blacklist_updated frame superseded a coin-list
\* request), was lost, and the dashboard timer has started a pull since
WitnessDashboardPollResumes ==
    /\ ev.op = "pull" /\ ev.cause = "poll" /\ ev.key = "dash"
    /\ ~connected
    /\ sockets # <<>> /\ sockets[1] = "CLOSED"
    /\ dashPulls # <<>>
    /\ \E i \in 1..Len(coinsPulls) : ~coinsPulls[i].cur

\* C12: a dashboard_update frame leaves its whole payload in the dashboard
\* cache and an initial_state frame with a dashboard field leaves that
\* field there, whatever the cache held, and neither triggers a pull.
PushReplacesDashboard ==
    [][(IsOnMessageStep /\ rx'.kind = "object" /\ dashMounted) =>
         /\ rx'.type = "dashboard_update" =>
              /\ dashCache' = rx'.data
              /\ Len(dashPulls') = Len(dashPulls) /\ coinsPulls' = coinsPulls
         /\ (/\ rx'.type = "initial_state"
             /\ ~rx'.data.nullish /\ rx'.data.dashboard # Undefined) =>
              /\ dashCache' = Snap(rx'.data.dashboard)
              /\ Len(dashPulls') = Len(dashPulls) /\ coinsPulls' = coinsPulls]_vars

\* {dashboard: s1000} was pushed by initial_state or pulled, then the frame
\* dashboard_update s900 was applied while a pull was in flight
WitnessPushReplacesDashboard ==
    /\ rx.kind = "object" /\ rx.type = "dashboard_update"
    /\ rx.invoked = <<"hUpd">>
    /\ rx.data = Snap("s900")
    /\ dashCache = Snap("s900")
    /\ dashPulls # <<>>

\* C13: a blacklist_updated frame received while useCoins is mounted starts
\* a pull of the coin list, and writes neither cache.
BlacklistUpdatedPulls ==
    [][(IsOnMessageStep /\ rx'.kind = "object" /\ rx'.type = "blacklist_updated"
          /\ coinsMounted) =>
         /\ Len(coinsPulls') = Len(coinsPulls) + 1
         /\ coinsPulls'[Len(coinsPulls')] = NewPull
         /\ coinsCache' = coinsCache
         /\ dashCache' = dashCache
         /\ Len(dashPulls') = Len(dashPulls)]_vars

\* a second blacklist_updated frame arrived while the pull of the first was
\* in flight, both caches holding a value
WitnessBlacklistUpdatedPulls ==
    /\ rx.kind = "object" /\ rx.type = "blacklist_updated"
    /\ rx.invoked = <<"hBl">>
    /\ Len(coinsPulls) = 2
    /\ coinsCache \in CoinLists
    /\ dashCache # NoData

\* C14: whenever the request of a toggleBlacklist call ends (2xx, non-2xx
\* or network failure) while useCoins is mounted, a pull of the coin list
\* is started.
ToggleAlwaysRefreshes ==
    [][(IsCacheStep("toggleSettle") /\ coinsMounted) =>
         /\ Len(coinsPulls') = Len(coinsPulls) + 1
         /\ coinsPulls'[Len(coinsPulls')] = NewPull]_vars

\* C15: no step of toggleBlacklist (the call, the end of its request)
\* changes the coin-list cache, whatever the response; the cache changes
\* only when the response of a pull lands, and then holds what that pull
\* returned.
ToggleNeverWritesCache ==
    [][/\ (IsCacheStep("toggle") \/ IsCacheStep("toggleSettle")) =>
            coinsCache' = coinsCache
       /\ (coinsCache' # coinsCache) =>
            /\ IsSettleStep("coins")
            /\ coinsCache' = ev'.resp.body]_vars

\* the DELETE request of a toggleBlacklist call ended with a non-2xx answer:
\* the cache still holds the list it held and the refresh is in flight
WitnessToggleNeverWritesCache ==
    /\ ev.op = "toggleSettle" /\ ev.cause = "DELETE"
    /\ ev.resp.status = "non2xx"
    /\ coinsCache = "c1"
    /\ coinsPulls # <<>>
    /\ toggles = <<>>

\* C16: the response of a dashboard pull that was issued before a push was
\* applied does not change the dashboard cache.
PushNotOverwrittenByStalePull ==
    [][(IsSettleStep("dash") /\ dashPulls[ev'.idx].pre) =>
         dashCache' = dashCache]_vars

\* a pull answered 200 with s1000 after a push had written s900: the cache
\* still holds s900
WitnessStalePullDropped ==
    /\ ev.op = "settle" /\ ev.key = "dash"
    /\ ev.resp = Ok("s1000")
    /\ dashCache = Snap("s900")
    /\ dashMounted

Cache(key) == IF key = "dash" THEN dashCache ELSE coinsCache
Pulls(key) == IF key = "dash" THEN dashPulls ELSE coinsPulls
Value(key, body) == IF key = "dash" THEN Snap(body) ELSE body
Resolved(resp) == resp.json /\ resp.status \in {"2xx", "non2xx"}

\* C17, as claimed: every pull response that resolves is written to the
\* cache of its resource, so the last one to resolve determines its value.
LastResolvedWins ==
    [][\A key \in {"dash", "coins"} :
         (IsSettleStep(key) /\ Resolved(ev'.resp)) =>
            Cache(key)' = Value(key, ev'.resp.body)]_vars

\* C17, amended: a pull response that resolves is written to the cache of
\* its resource exactly when its request is the one most recently started
\* for the resource and no push has written the cache since it started;
\* any other response leaves the cache as it is.  A timer, mount, focus or
\* retry revalidation starts no request while one it can join is in flight.
LatestStartedWins ==
    [][\A key \in {"dash", "coins"} :
         /\ (IsSettleStep(key) /\ Resolved(ev'.resp)) =>
              LET req == Pulls(key)[ev'.idx]
              IN  IF req.cur /\ ~req.pre
                  THEN Cache(key)' = Value(key, ev'.resp.body)
                  ELSE Cache(key)' = Cache(key)
         /\ (/\ IsCacheStep("pull") /\ ev'.key = key
             /\ \E i \in 1..Len(Pulls(key)) : Pulls(key)[i].cur) =>
              Pulls(key)' = Pulls(key)]_vars

\* of two coin-list pulls in flight the one started first resolved last,
\* with c2, and the cache kept c1, the answer of the one started later
WitnessOlderResponseDropped ==
    /\ ev.op = "settle" /\ ev.key = "coins"
    /\ ev.resp = Ok("c2")
    /\ coinsCache = "c1"
    /\ coinsPulls = <<>>

\* C18: a pull that ends with a non-2xx status or a network failure leaves
\* the cached value of its resource as it was and sets the error.
FailedPullKeepsCache ==
    [][\A key \in {"dash", "coins"} :
         (IsSettleStep(key) /\ ev'.resp.status \in {"non2xx", "network"}) =>
            /\ Cache(key)' = Cache(key)
            /\ IF key = "dash" THEN dashError' ELSE coinsError']_vars

\* C19, as claimed: when a dashboard pull fails while the cache holds no
\* value, the error is set and isLoading is still true.
LoadingSurvivesFailure ==
    [][(IsSettleStep("dash") /\ fetcher(ev'.resp).rejected /\ dashCache.nullish) =>
         /\ dashError'
         /\ isLoading(dashCache', dashError')]_vars

\* C19, amended: when a dashboard pull is rejected while the cache holds no
\* value, the error is set, the cache still holds no value and isLoading is
\* false; isLoading is true exactly while there is neither value nor error.
FailureEndsLoading ==
    [][/\ (IsSettleStep("dash") /\ fetcher(ev'.resp).rejected /\ dashCache.nullish) =>
            /\ dashError'
            /\ dashCache' = dashCache
            /\ ~isLoading(dashCache', dashError')
       /\ (isLoading(dashCache, dashError) /\ ~isLoading(dashCache', dashError')) =>
            (~dashCache'.nullish \/ dashError')]_vars

\* the first pull of a mounted dashboard hook ended with a network failure
WitnessFailureEndsLoading ==
    /\ ev.op = "settle" /\ ev.key = "dash"
    /\ ev.resp.status = "network"
    /\ dashCache = NoData
    /\ dashError
    /\ dashMounted

Count(seq, x) == Cardinality({i \in 1..Len(seq) : seq[i] = x})
IsSubstring(q, str) == \E i, j \in 0..Len(str) : SubSeq(str, i + 1, j) = q

\* C20: the projection holds exactly the rows whose coin contains the search
\* text as a substring after both are case-folded, each as often as the row
\* collection holds it, and all of them when the search text is empty.
ProjectionIsSubstringFilter ==
    /\ \A r \in Rows :
         Count(filtered, r) =
            IF IsSubstring(toLowerCase(search), toLowerCase(r.coin))
            THEN Count(coins, r) ELSE 0
    /\ Range(filtered) \subseteq Rows
    /\ search = <<>> => Len(filtered) = Len(coins)

\* rows BTC, ETH, SOL and the search text "eT": exactly ETH, both sides folded
WitnessProjection ==
    /\ coins = <<Row(<<"B", "T", "C">>, Num(2), FALSE), Row(<<"E", "T", "H">>, Null, TRUE),
                 Row(<<"S", "O", "L">>, Num(1), FALSE)>>
    /\ search = <<"e", "T">>
    /\ filtered = <<Row(<<"E", "T", "H">>, Null, TRUE)>>

\* a row of the projection has a value in the active sort column
HasValue(r) == ~(sortKey = "win_rate" /\ r.win_rate.null)
\* the order of the active column's type on two rows that have a value:
\* locale collation of strings, booleans as 0/1, numbers
ColumnLeq(a, b) ==
    CASE sortKey = "coin" -> localeCompare(a.coin, b.coin) <= 0
      [] sortKey = "blacklisted" -> Number(a.blacklisted) <= Number(b.blacklisted)
      [] OTHER -> a.win_rate.n <= b.win_rate.n

\* C21: for every sort column and both directions the projection is a
\* permutation of the rows that pass the filter, no row without a value in
\* the sort column comes before a row with one, and the rows with a value
\* are in the order of the column's comparator, ascending or descending as
\* chosen.
SortedNullsLast ==
    /\ \A r \in Rows :
         Count(filtered, r) = Count(SelectSeq(coins, LAMBDA c : matches(c, search)), r)
    /\ Len(filtered) = Len(SelectSeq(coins, LAMBDA c : matches(c, search)))
    /\ \A i, j \in 1..Len(filtered) : i < j =>
         /\ ~(~HasValue(filtered[i]) /\ HasValue(filtered[j]))
         /\ (HasValue(filtered[i]) /\ HasValue(filtered[j])) =>
              IF sortDir = "asc" THEN ColumnLeq(filtered[i], filtered[j])
                                 ELSE ColumnLeq(filtered[j], filtered[i])

\* win rates [2, null, 1] sorted descending: [2, 1, null]
WitnessSortedNullsLast ==
    /\ coins = <<Row(<<"B", "T", "C">>, Num(2), FALSE), Row(<<"E", "T", "H">>, Null, TRUE),
                 Row(<<"S", "O", "L">>, Num(1), FALSE)>>
    /\ search = <<>>
    /\ sortKey = "win_rate" /\ sortDir = "desc"
    /\ filtered = <<Row(<<"B", "T", "C">>, Num(2), FALSE), Row(<<"S", "O", "L">>, Num(1), FALSE),
                    Row(<<"E", "T", "H">>, Null, TRUE)>>

\* this step is a call of handleSort; ev'.cause is the column clicked
IsSortStep == ev'.op = "sort" /\ <<sortKey, sortDir, undo>>' # <<sortKey, sortDir, undo>>

\* C22: handleSort(k) on the active column keeps the column and flips the
\* direction, on another column makes k active and ascending whatever the
\* direction was; a second toggle of the active column right after a first
\* restores the SortSpec and the row order the first one found.
SortToggle ==
    [][/\ IsSortStep =>
            IF ev'.cause = sortKey
            THEN sortKey' = sortKey /\ sortDir' # sortDir
            ELSE sortKey' = ev'.cause /\ sortDir' = "asc"
       /\ (IsSortStep /\ ev'.cause = sortKey /\ undo.set) =>
            /\ sortKey' = undo.key
            /\ sortDir' = undo.dir
            /\ filtered' = undo.rows]_vars

\* the win-rate column was toggled twice in a row on an engine that
\* reverses the rows without a value: ascending again, same row order
WitnessSortToggle ==
    /\ ev.op = "sort" /\ ev.cause = "win_rate"
    /\ undo.set /\ undo.dir = "desc"
    /\ sortKey = "win_rate" /\ sortDir = "asc"
    /\ sortImpl = "reverse"
    /\ Len(filtered) = 3
    /\ filtered[2] = Row(<<"s", "t", "E", "T", "H">>, Null, FALSE)
    /\ filtered[3] = Row(<<"E", "T", "H">>, Null, TRUE)
    /\ coins[1].coin = <<"E", "T", "H">>

Last(seq) == seq[Len(seq)]
InProjection(sel) == ~sel.null /\ \E i \in 1..Len(filtered) : filtered[i].coin = sel.coin

\* C23: the selection is one coin or none; a click on the selected row
\* clears it, a click on another row makes that row the selected one,
\* closing the detail clears it, nothing else changes it, and the detail is
\* rendered under at most one row, the selected one, exactly when that row
\* is in the projection.
SingleSelection ==
    /\ [](/\ Cardinality(detailRows(filtered, selectedCoin)) <= 1
          /\ \A i \in detailRows(filtered, selectedCoin) :
               selectedCoin = Coin(filtered[i].coin)
          /\ InProjection(selectedCoin) <=> detailRows(filtered, selectedCoin) # {})
    /\ [][/\ IsCacheStep("rowClick") =>
               LET c == filtered[ev'.idx]
               IN  IF selectedCoin = Coin(c.coin)
                   THEN selectedCoin' = NoCoin
                   ELSE selectedCoin' = Coin(c.coin)
          /\ IsCacheStep("close") => selectedCoin' = NoCoin
          /\ (selectedCoin' # selectedCoin) =>
               (IsCacheStep("rowClick") \/ IsCacheStep("close"))]_vars

\* BTC is selected and shown with its detail, after a click on the BTC row
\* of a table in which another row could have been selected
WitnessSingleSelection ==
    /\ ev.op = "rowClick" /\ ev.idx = 1
    /\ filtered = Listing("c1")
    /\ selectedCoin = Coin(<<"B", "T", "C">>)
    /\ detailRows(filtered, selectedCoin) = {1}

\* C26: a click on a row's Toggle starts toggleBlacklist with that row's
\* coin and flag and changes neither the selection, the SortSpec, the
\* search text, the rows nor the cache; the end of its request changes none
\* of them either, and the rows change only when a pull response lands.
ToggleOnlyDelegates ==
    [][/\ IsCacheStep("toggle") =>
            LET c == filtered[ev'.idx]
            IN  /\ Len(toggles') = Len(toggles) + 1
                /\ SubSeq(toggles', 1, Len(toggles)) = toggles
                /\ Last(toggles').coin = c.coin
                /\ Last(toggles').method = (IF c.blacklisted THEN "DELETE" ELSE "POST")
                /\ UNCHANGED <<selectedCoin, sortKey, sortDir, search, coins, filtered,
                               coinsCache, coinsPulls>>
       /\ IsCacheStep("toggleSettle") =>
            UNCHANGED <<selectedCoin, sortKey, sortDir, search, coins, filtered, coinsCache>>
       /\ (coins' # coins) => IsSettleStep("coins")]_vars

\* the Toggle of the selected row BTC was clicked: BTC is still selected and
\* the POST for BTC is in flight
WitnessToggleOnlyDelegates ==
    /\ ev.op = "toggle" /\ ev.idx = 1
    /\ filtered = Listing("c1")
    /\ selectedCoin = Coin(<<"B", "T", "C">>)
    /\ toggles = <<[method |-> "POST", coin |-> <<"B", "T", "C">>]>>

\* C27: the request of a toggle command is a DELETE when the row of that
\* coin in the cached coin list is blacklisted and a POST when it is not,
\* whatever requests are in flight; a toggle of the same coin right after
\* another one issues the same kind of request again.
ToggleKindFromSnapshot ==
    [][IsCacheStep("toggle") =>
         LET req == Last(toggles')
         IN  /\ \E r \in Range(coinsProp(coinsCache)) :
                  /\ r.coin = req.coin
                  /\ req.method = (IF r.blacklisted THEN "DELETE" ELSE "POST")
             /\ (ev.op = "toggle" /\ toggles # <<>> /\ Last(toggles).coin = req.coin) =>
                  req.method = Last(toggles).method]_vars

\* two POST requests for BTC are in flight, the second issued right after
\* the first, the cache still listing BTC as not blacklisted
WitnessSameKindTwice ==
    /\ ev.op = "toggle"
    /\ coinsCache = "c1"
    /\ toggles = <<[method |-> "POST", coin |-> <<"B", "T", "C">>],
                   [method |-> "POST", coin |-> <<"B", "T", "C">>]>>

\* the provider is mounted, has created n sockets and the one it holds has
\* delivered its close event
Disconnected(n) ==
    /\ mounted
    /\ Len(sockets) = n
    /\ wsRef # 0 /\ sockets[wsRef] = "CLOSED"

\* C24: an error closes its transport; every close event sets `connected`
\* to false and sets a timer; and a mounted provider whose transport has
\* closed makes a new connect attempt (or is torn down first), as long as
\* the clock advances and due timers run.
ReconnectsAfterClose ==
    /\ [][\A i \in 1..Len(sockets) :
            (sockets[i] # "CLOSED" /\ sockets'[i] = "CLOSED") =>
               /\ ~connected'
               /\ timerSeq' = timerSeq + 1
               /\ \E t \in timers' : t.id = timerSeq' /\ t.remaining = ReconnectDelayMs]_vars
    /\ \A n \in 1..(MaxSockets - 1) :
         Disconnected(n) ~> (Len(sockets) > n \/ ~mounted)

\* the first transport failed, the timer fired and the second transport is
\* connecting on the provider still mounted
WitnessReconnectsAfterClose ==
    /\ mounted
    /\ Len(sockets) = 2
    /\ sockets[1] = "CLOSED" /\ sockets[2] = "CONNECTING"
    /\ wsRef = 2
    /\ ~connected
    /\ timers = {}

\* C25: whenever `connected` is true the transport held in wsRef has opened
\* and has not delivered its close event.
ConnectedMeansHeldOpen ==
    connected => (wsRef # 0 /\ sockets[wsRef] \in {"OPEN", "CLOSING"})

\* C28: at most one reconnection timer is pending and it is the one in
\* reconnectTimeoutRef.
OneTimerPending ==
    /\ Cardinality(timers) <= 1
    /\ \A t \in timers : t.id = reconnectTimeoutRef

\* C29: an exception thrown by a handler during a dispatch does not leave
\* ws.onmessage and changes nothing of the connection, and the next frame
\* is dispatched to every handler registered for its type.
HandlerExceptionContained ==
    [][/\ (IsOnMessageStep /\ rx'.kind = "object" /\ rx'.caught) =>
            /\ ~rx'.escaped
            /\ UNCHANGED <<mounted, sockets, wsRef, connected, timers, timerSeq,
                           reconnectTimeoutRef>>
       /\ (/\ IsOnMessageStep /\ rx.kind = "object" /\ rx.caught
           /\ rx'.kind = "object" /\ rx'.type \in DOMAIN handlersRef') =>
            Range(handlersRef'[rx'.type]) \subseteq Range(rx'.invoked)]_vars

\* the handlers a mounted consumer registers for an event type
Registered(t) ==
    CASE t = "initial_state" -> IF dashMounted THEN {"hInit"} ELSE {}
      [] t = "dashboard_update" -> IF dashMounted THEN {"hUpd"} ELSE {}
      [] t = "blacklist_updated" -> IF coinsMounted THEN {"hBl"} ELSE {}
      [] OTHER -> {}

\* C30: the handler set of each event type holds, of the handlers of the
\* cache consumers, exactly those of the consumers now mounted; an unmount
\* removes the handlers its mount registered and leaves every other handler
\* set as it was; no frame invokes a handler of a consumer not mounted.
HandlersMatchMounted ==
    /\ [](\A t \in EventTypes :
            (IF t \in DOMAIN handlersRef THEN Range(handlersRef[t]) ELSE {})
               \cap CacheHandlers = Registered(t))
    /\ [][/\ (dashMounted /\ ~dashMounted') =>
               \A t \in DOMAIN handlersRef \ {"initial_state", "dashboard_update"} :
                  handlersRef'[t] = handlersRef[t]
          /\ (coinsMounted /\ ~coinsMounted') =>
               \A t \in DOMAIN handlersRef \ {"blacklist_updated"} :
                  handlersRef'[t] = handlersRef[t]
          /\ IsOnMessageStep =>
               /\ "hInit" \in Range(rx'.invoked) => dashMounted
               /\ "hUpd" \in Range(rx'.invoked) => dashMounted
               /\ "hBl" \in Range(rx'.invoked) => coinsMounted]_vars

\* useDashboard was mounted and unmounted while useCoins stays mounted, and
\* a dashboard_update frame that arrived since reached no handler
WitnessHandlersMatchMounted ==
    /\ ~dashMounted /\ coinsMounted
    /\ "dashboard_update" \in DOMAIN handlersRef
    /\ handlersRef["dashboard_update"] = <<>>
    /\ handlersRef["blacklist_updated"] = <<"hBl">>
    /\ rx.kind = "object" /\ rx.type = "dashboard_update"
    /\ rx.invoked = <<>>

====
